---- MODULE Spec2Model ----
(***************************************************************************)
(* Execution-mode resolution and container-mediated invocation of HyRISE.  *)
(* The host (PATH, image files) is chosen in Init; every call of the        *)
(* program is an action, or a chain of actions where the code blocks on    *)
(* the host (downloads, file copies, subprocesses).  The outcome of a      *)
(* blocking step is drawn when the step is taken, and an argument is drawn *)
(* where the code first reads it.                                          *)
(***************************************************************************)
EXTENDS Integers, Sequences, FiniteSets, TLC

VARIABLES
    onPath,      \* commands shutil.which resolves on the host
    images,      \* absolute paths at which a file exists (container images)
    pc,          \* position of the running call, "idle" between calls
    call,        \* arguments of the running call
    deps,        \* the dict returned by ensure_dependencies for this call
    results,     \* the results dict of the running call
    ws,          \* the tempfile.TemporaryDirectory of the running call
    procs,       \* subprocess.run calls of the running call, in order
    disk,        \* output side of the filesystem: directories made, files written
    detected,    \* value returned by the last detector call
    ret          \* value returned by the last configuration or builder call

vars == <<onPath, images, pc, call, deps, results, ws, procs, disk, detected, ret>>

env == <<onPath, images>>

----------------------------------------------------------------------------
(* Bounds and vocabulary *)

NONE == "None"

MaxFasta == 2

MaxExit == 1

Runtimes == {"apptainer", "singularity"}

Tools == {"multiqc", "sierralocal"}

Commands == Runtimes \cup Tools

\* Raw container-path arguments a caller can pass, and what they resolve to.
RawPaths == {"/opt/img.sif", "hyrise.sif"}

CwdImage == "/cwd/hyrise.sif"

DataImage == "/data/hyrise/hyrise.sif"

\* Path(p).expanduser().resolve()
Resolve(p) == IF p = "hyrise.sif" THEN CwdImage ELSE p

\* os.path.exists(p): a relative path is looked up from the working directory
OsPathExists(p, files) == Resolve(p) \in files

ImagePaths == {Resolve(p) : p \in RawPaths} \cup {CwdImage, DataImage}

Modes == {"True", "False", NONE}

Preferred == {NONE} \cup Runtimes

----------------------------------------------------------------------------
(* container_utils.py *)

\* shutil.which
Which(cmd, path) == IF cmd \in path THEN "/usr/bin/" \o cmd ELSE NONE

check_command_available(cmd, path) == Which(cmd, path) # NONE

RuntimeCandidatesKeepLast(preferred) ==
    IF preferred = "apptainer" THEN <<"singularity", "apptainer">>
    ELSE <<"apptainer", "singularity">>

RuntimeCandidates(preferred) ==
    LET first == IF preferred # NONE THEN <<preferred>> ELSE <<>>
        withA == IF \E i \in 1..Len(first) : first[i] = "apptainer"
                 THEN first ELSE Append(first, "apptainer")
    IN  IF \E i \in 1..Len(withA) : withA[i] = "singularity"
        THEN withA ELSE Append(withA, "singularity")

RECURSIVE FirstOnPath(_, _)
FirstOnPath(cands, path) ==
    IF cands = <<>> THEN [name |-> NONE, path |-> NONE]
    ELSE IF Which(Head(cands), path) # NONE
         THEN [name |-> Head(cands), path |-> Which(Head(cands), path)]
         ELSE FirstOnPath(Tail(cands), path)

detect_container_runtime(preferred, path) ==
    FirstOnPath(RuntimeCandidates(preferred), path)

RECURSIVE FirstExisting(_, _)
FirstExisting(paths, files) ==
    IF paths = <<>> THEN NONE
    ELSE IF Head(paths) # NONE /\ Resolve(Head(paths)) \in files
         THEN Resolve(Head(paths))
         ELSE FirstExisting(Tail(paths), files)

\* An optional list argument: not given (Python None) or a tuple of values.
NotGiven == [given |-> FALSE, items |-> <<>>]

Given(items) == [given |-> TRUE, items |-> items]

find_singularity_container(search_paths, files) ==
    FirstExisting(IF ~search_paths.given THEN <<CwdImage, DataImage>>
                  ELSE search_paths.items, files)

ExplicitCandidate(container_path, files) ==
    IF container_path # NONE /\ Resolve(container_path) \in files
    THEN Resolve(container_path) ELSE NONE

LocateFallback(found, search_paths, files) ==
    IF found = NONE THEN find_singularity_container(search_paths, files)
    ELSE found

InTuple(x, t) == \E i \in 1..Len(t) : t[i] = x

MissingDependencies(required, path) ==
    (IF InTuple("multiqc", required) /\ ~check_command_available("multiqc", path)
     THEN <<"multiqc">> ELSE <<>>)
    \o (IF InTuple("sierralocal", required)
           /\ ~check_command_available("sierralocal", path)
        THEN <<"sierralocal">> ELSE <<>>)

ResolveDowngradesForce(use_container, missing, runtime_path, cpath) ==
    IF use_container = "False" THEN FALSE
    ELSE IF use_container = "True" THEN runtime_path # NONE /\ cpath # NONE
    ELSE missing # <<>> /\ runtime_path # NONE /\ cpath # NONE

ResolveIgnoresImage(use_container, missing, runtime_path, cpath) ==
    IF use_container = "True" THEN TRUE
    ELSE IF use_container = "False" THEN FALSE
    ELSE missing # <<>> /\ runtime_path # NONE

ResolvePrefersContainer(use_container, missing, runtime_path, cpath) ==
    IF use_container = "True" THEN TRUE
    ELSE IF use_container = "False" THEN FALSE
    ELSE runtime_path # NONE /\ cpath # NONE

ResolveIgnoresRuntime(use_container, missing, runtime_path, cpath) ==
    IF use_container = "True" THEN TRUE
    ELSE IF use_container = "False" THEN FALSE
    ELSE missing # <<>> /\ cpath # NONE

\* lines 169-176
ResolveUseContainer(use_container, missing, runtime_path, cpath) ==
    IF use_container = "True" THEN TRUE
    ELSE IF use_container = "False" THEN FALSE
    ELSE missing # <<>> /\ runtime_path # NONE /\ cpath # NONE

ensure_dependencies(use_container, required_tools, container_path, container_runtime, search_paths, path, files) ==
    LET rt == detect_container_runtime(container_runtime, path)
        cpath == LocateFallback(ExplicitCandidate(container_path, files),
                                search_paths, files)
        required == IF ~required_tools.given THEN <<"multiqc", "sierralocal">>
                    ELSE required_tools.items
        missing == MissingDependencies(required, path)
    IN  [multiqc_available |-> check_command_available("multiqc", path),
         sierra_local_available |-> check_command_available("sierralocal", path),
         singularity_available |-> rt.path # NONE,
         runtime_name |-> rt.name,
         runtime_path |-> rt.path,
         container_path |-> cpath,
         use_container |-> ResolveUseContainer(use_container, missing, rt.path, cpath),
         missing_dependencies |-> missing]

----------------------------------------------------------------------------
(* container_builder.py *)

\* subprocess.run([path, "--version"]).returncode == 0
VersionQueryOk(binary, vok) == binary \in vok

RECURSIVE FirstVerified(_, _, _)
FirstVerified(cands, path, vok) ==
    IF cands = <<>> THEN NONE
    ELSE IF Which(Head(cands), path) # NONE /\ VersionQueryOk(Head(cands), vok)
         THEN Which(Head(cands), path)
         ELSE FirstVerified(Tail(cands), path, vok)

find_singularity_binary(path, vok) ==
    FirstVerified(<<"singularity", "apptainer">>, path, vok)

\* the runtimes on PATH whose version query can exit 0 or not on this host
VersionOutcomes == SUBSET (onPath \cap Runtimes)

----------------------------------------------------------------------------
(* Host input files and path arithmetic (os.path) *)

FastaFiles == {"/a/s.fa", "/b/s.fa", "/a/no.fa"}

XmlFiles == {"/a/h.xml", "/a/no.xml"}

JsonFiles == {"/a/d.json", "/a/no.json"}

\* --output: not given, or a path whose file name is that of an input a call
\* can be given as well (/a/d.json)
OutputArgs == {NONE, "/out/d.json"}

\* what the wrapped tool can write as its result
OutContents == {"result"}

\* directories that exist before any call
ExistingDirs == {"/cwd", "/a", "/b"}

\* os.makedirs(d, exist_ok=True)
MakeDirs(dirs, d) == dirs \cup ({d} \ ExistingDirs)

\* os.path.exists on an input file
InputExists(p) == p \notin {"/a/no.fa", "/a/no.xml", "/a/no.json"}

\* <<path, os.path.dirname, os.path.basename, stem of os.path.splitext>>
PathParts ==
    {<<"/a/s.fa", "/a", "s.fa", "s">>, <<"/b/s.fa", "/b", "s.fa", "s">>,
     <<"/a/no.fa", "/a", "no.fa", "no">>, <<"/a/h.xml", "/a", "h.xml", "h">>,
     <<"/a/no.xml", "/a", "no.xml", "no">>, <<"/a/d.json", "/a", "d.json", "d">>,
     <<"/a/no.json", "/a", "no.json", "no">>,
     <<"/out/d.json", "/out", "d.json", "d">>,
     <<"/data/resources/HIVDB_9.xml", "/data/resources", "HIVDB_9.xml", "HIVDB_9">>,
     <<"/data/resources/apobec_drms.json", "/data/resources", "apobec_drms.json",
       "apobec_drms">>,
     <<"/opt/img.sif", "/opt", "img.sif", "img">>,
     <<"/proc/s_mqc.json", "/proc", "s_mqc.json", "s_mqc">>,
     <<"/proc/multiqc_config.yml", "/proc", "multiqc_config.yml", "multiqc_config">>,
     <<"/cwd/s_NGS_results.json", "/cwd", "s_NGS_results.json", "s_NGS_results">>,
     <<"/cwd/no_NGS_results.json", "/cwd", "no_NGS_results.json", "no_NGS_results">>}

Parts(p) == CHOOSE t \in PathParts : t[1] = p

Dirname(p) == Parts(p)[2]

Basename(p) == Parts(p)[3]

Stem(p) == Parts(p)[4]

\* the bytes of the host file at p
Content(p) == "bytes of " \o p

\* a directory as a set of <<name, content>>; writing a name replaces the file
Put(files, name, content) == {f \in files : f[1] # name} \cup {<<name, content>>}

Has(files, name) == \E f \in files : f[1] = name

Get(files, name) == (CHOOSE f \in files : f[1] = name)[2]

----------------------------------------------------------------------------
(* commands/sierra.py *)

_default_sierra_output_name(fasta_files) ==
    Stem(fasta_files[1]) \o "_NGS_results.json"

_resolve_output_json_path(output, fasta_files) ==
    IF output = NONE THEN "/cwd/" \o _default_sierra_output_name(fasta_files)
    ELSE output

NoError == [msg |-> NONE, detail |-> NONE]

Error(msg, detail) == [msg |-> msg, detail |-> detail]

NoResults ==
    [success |-> FALSE, output_path |-> NONE, container_used |-> FALSE,
     error |-> NoError, printed |-> {}, raised |-> FALSE]

NoDeps ==
    [multiqc_available |-> FALSE, sierra_local_available |-> FALSE,
     singularity_available |-> FALSE, runtime_name |-> NONE, runtime_path |-> NONE,
     container_path |-> NONE, use_container |-> FALSE,
     missing_dependencies |-> <<"-">>]

NoWs == [exists |-> FALSE, files |-> {}]

NoDetected ==
    [fn |-> NONE, preferred |-> NONE, vok |-> {}, name |-> NONE, path |-> NONE]

NoDisk == [dirs |-> {}, files |-> {}]

NoRet ==
    [ok |-> FALSE, path |-> NONE, code |-> -1, paths |-> <<>>, processed |-> <<>>]

NoCall ==
    [op |-> NONE, fasta |-> <<>>, xml |-> NONE, json_file |-> NONE, output |-> NONE,
     container |-> NONE, container_path |-> NONE, container_runtime |-> NONE,
     search_paths |-> NotGiven, required_tools |-> NotGiven,
     generate_report |-> FALSE, run_multiqc |-> FALSE]

ExitWorkspaceNoFinally(w, how) == IF how = "normal" THEN NoWs ELSE w

\* tempfile.TemporaryDirectory().__exit__: how is "normal" or "exception"
ExitWorkspace(w, how) == NoWs

ValidateInputsFastaOnly(fasta, xml, json_file) ==
    IF \E i \in 1..Len(fasta) : ~InputExists(fasta[i])
    THEN Error("FASTA file not found", fasta[1])
    ELSE NoError

\* lines 284-302
ValidateInputs(fasta, xml, json_file) ==
    IF \E i \in 1..Len(fasta) : ~InputExists(fasta[i])
    THEN LET i == CHOOSE i \in 1..Len(fasta) :
                      /\ ~InputExists(fasta[i])
                      /\ \A j \in 1..(i - 1) : InputExists(fasta[j])
         IN  Error("FASTA file not found", fasta[i])
    ELSE IF xml # NONE /\ ~InputExists(xml) THEN Error("XML file not found", xml)
    ELSE IF json_file # NONE /\ ~InputExists(json_file)
         THEN Error("JSON file not found", json_file)
    ELSE NoError

\* lines 340-343: an explicit path that exists replaces the resolved one
OverrideContainerPath(d, container_path, files) ==
    IF container_path # NONE /\ OsPathExists(container_path, files)
    THEN [d EXCEPT !.container_path = container_path]
    ELSE d

SierraGateNativeUnchecked(d, container_path, files) ==
    IF container_path # NONE /\ ~OsPathExists(container_path, files)
    THEN Error("Container not found at", container_path)
    ELSE IF d.use_container /\ d.container_path = NONE
    THEN Error("Container required but not found", NONE)
    ELSE IF d.use_container /\ d.runtime_path = NONE
    THEN Error("No supported container runtime found", NONE)
    ELSE NoError

\* lines 340-377: the checks between resolution and invocation
SierraGate(d, container_path, files) ==
    IF container_path # NONE /\ ~OsPathExists(container_path, files)
    THEN Error("Container not found at", container_path)
    ELSE IF d.use_container /\ d.container_path = NONE
    THEN Error("Container required but not found", NONE)
    ELSE IF ~d.use_container /\ ~d.sierra_local_available
    THEN Error("SierraLocal is not available", NONE)
    ELSE IF d.use_container /\ d.runtime_path = NONE
    THEN Error("No supported container runtime found", NONE)
    ELSE NoError

\* the files copied into the workspace, in the order of lines 387-408
StagedInputs(c) ==
    c.fasta \o (IF c.xml # NONE THEN <<c.xml>> ELSE <<>>)
            \o (IF c.json_file # NONE THEN <<c.json_file>> ELSE <<>>)

RECURSIVE CopyIn(_, _)
CopyIn(files, items) ==
    IF items = <<>> THEN files
    ELSE CopyIn(Put(files, Basename(Head(items)), Content(Head(items))), Tail(items))

OutputAbs(c) == _resolve_output_json_path(c.output, c.fasta)

\* the FASTA arguments of a call: up to MaxFasta distinct files, in order
FastaArgs ==
    {f \in UNION {[1..n -> FastaFiles] : n \in 1..MaxFasta} :
        \A i, j \in 1..Len(f) : f[i] = f[j] => i = j}

\* get_default_data_dir() / "resources"
DefaultResourceDir == "/data/resources"

\* the files update_hivdb_xml and update_apobec_drms download
NewXml == "/data/resources/HIVDB_9.xml"

NewJson == "/data/resources/apobec_drms.json"

\* lines 304-321: --forceupdate; "updated" is a requested update whose two
\* downloads succeeded, "none" is no request or an update that failed before
\* it wrote anything
UpdateOutcomes == {"none", "updated"}

\* the downloads create the resource directory and write their files
Download(d) ==
    [dirs |-> MakeDirs(d.dirs, DefaultResourceDir),
     files |-> Put(Put(d.files, NewXml, Content(NewXml)), NewJson, Content(NewJson))]

\* lines 272-327: input validation, the resource update, the output path and
\* os.makedirs of its parent
run_sierra_local ==
    /\ pc = "idle"
    /\ \E fasta \in FastaArgs, xml \in {NONE} \cup XmlFiles,
          json_file \in {NONE} \cup JsonFiles, output \in OutputArgs :
        LET c == [NoCall EXCEPT !.op = "run_sierra_local", !.fasta = fasta,
                                !.xml = xml, !.json_file = json_file,
                                !.output = output]
            invalid == ValidateInputs(fasta, xml, json_file)
        IN  /\ procs' = <<>>
            /\ IF invalid # NoError
               THEN /\ call' = c
                    /\ results' = [NoResults EXCEPT !.error = invalid]
                    /\ pc' = "returned"
                    /\ UNCHANGED disk
               ELSE \E update \in UpdateOutcomes :
                    LET updated == IF update = "updated" THEN Download(disk)
                                   ELSE disk
                    IN  /\ call' = IF update = "updated"
                                   THEN [c EXCEPT !.xml = NewXml,
                                                  !.json_file = NewJson]
                                   ELSE c
                        /\ results' = NoResults
                        /\ disk' = [updated EXCEPT !.dirs =
                                       MakeDirs(@, Dirname(OutputAbs(c)))]
                        /\ pc' = "sierra_resolve"
    /\ UNCHANGED <<env, deps, ws, detected, ret>>

\* lines 329-380: ensure_dependencies, the checks on its decision, and the
\* creation of the temporary directory
SierraResolve ==
    /\ pc = "sierra_resolve"
    /\ \E container \in Modes, container_path \in {NONE} \cup RawPaths,
          container_runtime \in Preferred :
        LET d == OverrideContainerPath(
                     ensure_dependencies(container, Given(<<"sierralocal">>),
                                         container_path, container_runtime,
                                         NotGiven, onPath, images),
                     container_path, images)
            gate == SierraGate(d, container_path, images)
        IN  /\ call' = [call EXCEPT !.container = container,
                                    !.container_path = container_path,
                                    !.container_runtime = container_runtime]
            /\ deps' = d
            /\ IF gate # NoError
               THEN /\ results' = [results EXCEPT !.error = gate]
                    /\ pc' = "returned"
                    /\ UNCHANGED ws
               ELSE /\ UNCHANGED results
                    /\ IF d.use_container
                       THEN /\ ws' = [exists |-> TRUE, files |-> {}]
                            /\ pc' = "sierra_stage"
                       ELSE /\ pc' = "sierra_native"
                            /\ UNCHANGED ws
    /\ UNCHANGED <<env, procs, disk, detected, ret>>

\* lines 385-408: shutil.copy2 of each input; a copy may raise
SierraStage ==
    /\ pc = "sierra_stage"
    /\ \/ /\ ws' = [ws EXCEPT !.files = CopyIn(@, StagedInputs(call))]
          /\ pc' = "sierra_exec"
          /\ UNCHANGED results
       \/ /\ ws' = ExitWorkspace(ws, "exception")
          /\ results' = [results EXCEPT
                           !.error = Error("Error running SierraLocal", "copy")]
          /\ pc' = "returned"
    /\ UNCHANGED <<env, call, deps, procs, disk, detected, ret>>

ExitCodes == 0..MaxExit

CheckRaisesNever(code) == FALSE

\* subprocess.run(..., check=True) raises CalledProcessError on a non-zero exit
CheckRaises(code) == code # 0

CopyOutFirstInput(files, w, dest, c) ==
    Put(files, dest, Get(w.files, Basename(c.fasta[1])))

\* line 436: shutil.copy2(temp_output, output_abs)
CopyOut(files, w, dest, c) == Put(files, dest, Get(w.files, Basename(dest)))

\* lines 417-441: subprocess.run(full_cmd, check=True), then the output check
SierraExec ==
    /\ pc = "sierra_exec"
    /\ \E code \in ExitCodes, wrote \in {NONE} \cup OutContents :
        LET name == Basename(OutputAbs(call))
            after == IF wrote = NONE THEN ws.files ELSE Put(ws.files, name, wrote)
        IN  /\ procs' = Append(procs, [exe |-> deps.runtime_path, verb |-> "exec",
                                       image |-> deps.container_path,
                                       tool |-> "sierralocal", code |-> code,
                                       wrote |-> wrote])
            /\ IF CheckRaises(code)
               THEN /\ ws' = ExitWorkspace([ws EXCEPT !.files = after], "exception")
                    /\ results' = [results EXCEPT
                          !.error = Error("SierraLocal execution failed",
                                          ToString(code))]
                    /\ pc' = "returned"
               ELSE IF Has(after, name)
               THEN /\ ws' = [ws EXCEPT !.files = after]
                    /\ pc' = "sierra_copyout"
                    /\ UNCHANGED results
               ELSE /\ ws' = ExitWorkspace([ws EXCEPT !.files = after], "normal")
                    /\ results' = [results EXCEPT
                          !.error = Error("Output file was not created in container",
                                          NONE)]
                    /\ pc' = "returned"
    /\ UNCHANGED <<env, call, deps, disk, detected, ret>>

SierraCopyOutSuccessFirst ==
    /\ pc = "sierra_copyout"
    /\ results' = [results EXCEPT !.success = TRUE,
                                  !.output_path = OutputAbs(call),
                                  !.container_used = TRUE]
    /\ \/ /\ disk' = [disk EXCEPT !.files = CopyOut(@, ws, OutputAbs(call), call)]
          /\ ws' = ExitWorkspace(ws, "normal")
       \/ /\ ws' = ExitWorkspace(ws, "exception")
          /\ UNCHANGED disk
    /\ pc' = "returned"
    /\ UNCHANGED <<env, call, deps, procs, detected, ret>>

\* lines 434-439: shutil.copy2(temp_output, output_abs); the copy may raise
SierraCopyOut ==
    /\ pc = "sierra_copyout"
    /\ \/ /\ disk' = [disk EXCEPT !.files = CopyOut(@, ws, OutputAbs(call), call)]
          /\ results' = [results EXCEPT !.success = TRUE,
                                        !.output_path = OutputAbs(call),
                                        !.container_used = TRUE]
          /\ ws' = ExitWorkspace(ws, "normal")
       \/ /\ results' = [results EXCEPT
                           !.error = Error("Error running SierraLocal", "copy")]
          /\ ws' = ExitWorkspace(ws, "exception")
          /\ UNCHANGED disk
    /\ pc' = "returned"
    /\ UNCHANGED <<env, call, deps, procs, detected, ret>>

\* lines 443-473: native execution
SierraNative ==
    /\ pc = "sierra_native"
    /\ \E code \in ExitCodes, wrote \in {NONE} \cup OutContents :
        LET after == IF wrote = NONE THEN disk.files
                     ELSE Put(disk.files, OutputAbs(call), wrote)
        IN  /\ procs' = Append(procs, [exe |-> "sierralocal", verb |-> "native",
                                       image |-> NONE, tool |-> "sierralocal",
                                       code |-> code, wrote |-> wrote])
            /\ disk' = [disk EXCEPT !.files = after]
            /\ IF CheckRaises(code)
               THEN results' = [results EXCEPT
                        !.error = Error("SierraLocal execution failed",
                                        ToString(code))]
               ELSE IF Has(after, OutputAbs(call))
               THEN results' = [results EXCEPT !.success = TRUE,
                                               !.output_path = OutputAbs(call)]
               ELSE results' = [results EXCEPT
                        !.error = Error("Output file was not created", NONE)]
    /\ pc' = "returned"
    /\ UNCHANGED <<env, call, deps, ws, detected, ret>>

----------------------------------------------------------------------------
(* core/processor.py *)

ProcessDir == "/proc"

VizFile == "/proc/s_mqc.json"

ConfigFile == "/proc/multiqc_config.yml"

ReportDir == "/proc/multiqc_report"

\* lines 89-91: an explicit path replaces the resolved one only if it exists
PfOverrideContainerPath(d, container_path, files) ==
    IF container_path # NONE /\ OsPathExists(container_path, files)
    THEN [d EXCEPT !.container_path = container_path]
    ELSE d

\* lines 153-271: which way MultiQC is run
PfBranch(d) ==
    IF d.use_container /\ d.container_path # NONE THEN "container"
    ELSE IF d.multiqc_available THEN "native"
    ELSE "none"

\* line 181: the executable of the container command
PfRuntimeExecutable(d) == "singularity"

Printed(r, msg) == [r EXCEPT !.printed = @ \cup {msg}]

\* lines 68-153: output directory, resolution, the visualisation files
process_files ==
    /\ pc = "idle"
    /\ \E use_container \in Modes, container_path \in {NONE} \cup RawPaths,
          generate_report \in BOOLEAN, run_multiqc \in BOOLEAN, loaded \in BOOLEAN :
        LET c == [NoCall EXCEPT !.op = "process_files",
                                !.container = use_container,
                                !.container_path = container_path,
                                !.generate_report = generate_report,
                                !.run_multiqc = run_multiqc]
            d == PfOverrideContainerPath(
                     ensure_dependencies(use_container, NotGiven, NONE, NONE,
                                         NotGiven, onPath, images),
                     container_path, images)
            r == [NoResults EXCEPT !.container_used = d.use_container]
            made == [disk EXCEPT !.dirs = MakeDirs(@, ProcessDir)]
            viz == [made EXCEPT !.files = Put(@, VizFile, Content(VizFile))]
        IN  /\ call' = c
            /\ deps' = d
            /\ procs' = <<>>
            /\ IF ~loaded
               THEN /\ results' = [Printed(r, "Error processing file")
                                     EXCEPT !.raised = TRUE]
                    /\ disk' = made
                    /\ pc' = "returned"
                    /\ UNCHANGED ws
               ELSE IF ~generate_report
               THEN /\ results' = r
                    /\ disk' = viz
                    /\ pc' = "returned"
                    /\ UNCHANGED ws
               ELSE IF ~run_multiqc
               THEN /\ results' = r
                    /\ disk' = [viz EXCEPT !.files =
                                   Put(@, ConfigFile, Content(ConfigFile))]
                    /\ pc' = "returned"
                    /\ UNCHANGED ws
               ELSE /\ disk' = viz
                    /\ CASE PfBranch(d) = "container" ->
                              /\ results' = r
                              /\ ws' = [exists |-> TRUE, files |-> {}]
                              /\ pc' = "pf_stage"
                         [] PfBranch(d) = "native" ->
                              /\ results' = r
                              /\ pc' = "pf_native"
                              /\ UNCHANGED ws
                         [] OTHER ->
                              /\ results' = Printed(r, "Cannot run MultiQC")
                              /\ pc' = "returned"
                              /\ UNCHANGED ws
    /\ UNCHANGED <<env, detected, ret>>

\* lines 161-176: the visualisation files are copied outside the inner try,
\* the generated config inside it
PfStage ==
    /\ pc = "pf_stage"
    /\ \/ /\ ws' = [ws EXCEPT !.files =
                       Put(Put(@, Basename(VizFile), Content(VizFile)),
                           Basename(ConfigFile), Content(ConfigFile))]
          /\ disk' = [disk EXCEPT !.files = Put(@, ConfigFile, Content(ConfigFile))]
          /\ pc' = "pf_exec"
          /\ UNCHANGED results
       \/ /\ ws' = ExitWorkspace(ws, "exception")
          /\ results' = [Printed(results, "Error processing file")
                           EXCEPT !.raised = TRUE]
          /\ pc' = "returned"
          /\ UNCHANGED disk
       \/ /\ ws' = ExitWorkspace(ws, "normal")
          /\ results' = Printed(results, "Error in container-based report generation")
          /\ disk' = [disk EXCEPT !.files = Put(@, ConfigFile, Content(ConfigFile))]
          /\ pc' = "returned"
    /\ UNCHANGED <<env, call, deps, procs, detected, ret>>

\* lines 179-237: subprocess.run(container_cmd, check=True); the executable is
\* looked up on PATH and the call raises FileNotFoundError when it is not there
PfExec ==
    /\ pc = "pf_exec"
    /\ IF Which(PfRuntimeExecutable(deps), onPath) = NONE
       THEN /\ results' = Printed(results,
                                  "Error in container-based report generation")
            /\ ws' = ExitWorkspace(ws, "normal")
            /\ pc' = "returned"
            /\ UNCHANGED procs
       ELSE \E code \in ExitCodes, wrote \in BOOLEAN :
            LET after == IF wrote
                         THEN Put(ws.files, "multiqc_report", "report")
                         ELSE ws.files
            IN  /\ procs' = Append(procs, [exe |-> PfRuntimeExecutable(deps),
                                           verb |-> "exec",
                                           image |-> deps.container_path,
                                           tool |-> "multiqc", code |-> code,
                                           wrote |-> IF wrote THEN "report"
                                                     ELSE NONE])
                /\ IF code # 0
                   THEN /\ results' = Printed(results,
                               "Error in container-based report generation")
                        /\ ws' = ExitWorkspace([ws EXCEPT !.files = after], "normal")
                        /\ pc' = "returned"
                   ELSE IF Has(after, "multiqc_report")
                   THEN /\ ws' = [ws EXCEPT !.files = after]
                        /\ pc' = "pf_copyout"
                        /\ UNCHANGED results
                   ELSE /\ results' = Printed(results,
                               "Error running MultiQC via container")
                        /\ ws' = ExitWorkspace([ws EXCEPT !.files = after], "normal")
                        /\ pc' = "returned"
    /\ UNCHANGED <<env, call, deps, disk, detected, ret>>

\* lines 199-228: the report is copied back; a failing copy is caught and printed
PfCopyOut ==
    /\ pc = "pf_copyout"
    /\ \/ /\ disk' = [disk EXCEPT !.dirs = MakeDirs(@, ReportDir),
                                  !.files = Put(@, ReportDir,
                                                Get(ws.files, "multiqc_report"))]
          /\ UNCHANGED results
       \/ /\ disk' = [disk EXCEPT !.dirs = MakeDirs(@, ReportDir)]
          /\ results' = Printed(results,
                                "Error in container-based report generation")
    /\ ws' = ExitWorkspace(ws, "normal")
    /\ pc' = "returned"
    /\ UNCHANGED <<env, call, deps, procs, detected, ret>>

\* lines 240-262: report_generator.generate_report runs multiqc natively
PfNative ==
    /\ pc = "pf_native"
    /\ \E code \in ExitCodes :
        /\ procs' = Append(procs, [exe |-> "multiqc", verb |-> "native",
                                   image |-> NONE, tool |-> "multiqc",
                                   code |-> code,
                                   wrote |-> IF code = 0 THEN "report" ELSE NONE])
        /\ IF code = 0
           THEN /\ disk' = [disk EXCEPT !.dirs = MakeDirs(@, ReportDir),
                                        !.files = Put(Put(@, ConfigFile,
                                                          Content(ConfigFile)),
                                                      ReportDir, "report")]
                /\ UNCHANGED results
           ELSE /\ disk' = [disk EXCEPT !.files =
                               Put(@, ConfigFile, Content(ConfigFile))]
                /\ results' = Printed(results, "Error generating MultiQC report")
    /\ pc' = "returned"
    /\ UNCHANGED <<env, call, deps, ws, detected, ret>>

----------------------------------------------------------------------------
(* cli.py: the process command *)

\* core/processor.py lines 33-45: the parameters of process_files
ProcessFilesParameters ==
    {"json_file", "output_dir", "sample_name", "generate_report", "run_multiqc",
     "guide", "sample_info", "contact_email", "logo_path", "use_container",
     "container_path"}

\* lines 513-526: the keywords of the handler's call of process_files
ProcessCallKeywords ==
    {"sample_name", "generate_report", "run_multiqc", "guide", "sample_info",
     "contact_email", "logo_path", "use_container", "container_path",
     "container_runtime"}

\* a call with a keyword that is no parameter raises TypeError before the
\* function is entered
BindRaises(keywords, parameters) == keywords \ parameters # {}

\* line 528: results.get("success", True); the dictionary process_files
\* returns has no "success" key
ResultsGetSuccess(op, r) == IF op = "process_files" THEN TRUE ELSE r.success

\* lines 511-549 for one input: an exception or a false "success" gives 1
ProcessExitCode(raised, op, r) ==
    IF raised \/ ~ResultsGetSuccess(op, r) THEN 1 ELSE 0

\* args.input and the positional inputs, in the order of the command line
InputLists ==
    {<<>>, <<"a.json">>, <<"a.json", "b.json">>, <<"b.json", "a.json">>}

\* lines 479-509: the container path check and the input check; ret.paths
\* holds the inputs whose turn is over, ret.processed those process_files ran for
run_process_command ==
    /\ pc = "idle"
    /\ \E container \in Modes, container_path \in {NONE} \cup RawPaths,
          inputs \in InputLists, run_multiqc \in BOOLEAN :
        /\ call' = [op |-> "run_process_command", container |-> container,
                    container_path |-> container_path, inputs |-> inputs,
                    generate_report |-> run_multiqc, run_multiqc |-> run_multiqc]
        /\ IF container_path # NONE /\ ~OsPathExists(container_path, images)
           THEN /\ results' = Printed(NoResults, "Specified container not found")
                /\ ret' = [NoRet EXCEPT !.code = 1]
                /\ pc' = "returned"
           ELSE IF inputs = <<>>
           THEN /\ results' = Printed(NoResults, "no input JSON provided")
                /\ ret' = [NoRet EXCEPT !.code = 1]
                /\ pc' = "returned"
           ELSE /\ results' = NoResults
                /\ ret' = [NoRet EXCEPT !.code = 0]
                /\ pc' = "process_loop"
    /\ UNCHANGED <<env, deps, procs, ws, disk, detected>>

\* lines 511-549: one turn of the loop, then `return 0 if overall_success else
\* 1`; the call of process_files binds no frame (TypeError, caught at line 542)
\* and the loop goes on with the next input
ProcessLoop ==
    /\ pc = "process_loop"
    /\ IF Len(ret.paths) = Len(call.inputs)
       THEN /\ pc' = "returned"
            /\ UNCHANGED <<ret, results>>
       ELSE /\ BindRaises(ProcessCallKeywords, ProcessFilesParameters)
            /\ results' = [Printed(results, "Error: TypeError")
                             EXCEPT !.raised = TRUE]
            /\ ret' = [ret EXCEPT
                         !.paths = Append(@, call.inputs[Len(@) + 1]),
                         !.code = IF ProcessExitCode(TRUE, "process_files",
                                                     NoResults) = 1
                                  THEN 1 ELSE @]
            /\ pc' = "process_loop"
    /\ UNCHANGED <<env, call, deps, procs, ws, disk, detected>>

----------------------------------------------------------------------------
(* config.py *)

\* _coerce_path: None and the empty string give None
_coerce_path(path_value) ==
    IF path_value = NONE \/ path_value = "" THEN NONE ELSE Resolve(path_value)

resolve_option_env_first(cli_value, config_value, env_value, default) ==
    IF cli_value # NONE THEN cli_value
    ELSE IF env_value # NONE /\ env_value # "" THEN env_value
    ELSE IF config_value # NONE THEN config_value
    ELSE default

\* env_value is os.environ.get(env_var): None when the variable is not set
resolve_option(cli_value, config_value, env_value, default) ==
    IF cli_value # NONE THEN cli_value
    ELSE IF config_value # NONE THEN config_value
    ELSE IF env_value # NONE /\ env_value # "" THEN env_value
    ELSE default

resolve_container_path(config_path, cli_container_path, env_value) ==
    _coerce_path(resolve_option(cli_container_path, config_path, env_value, NONE))

\* config_value is _get_nested(config, "container.runtime")
resolve_container_runtime(config_value, cli_runtime, env_value) ==
    resolve_option(cli_runtime, config_value, env_value, NONE)

\* config_value is _get_nested(config, "resources.dir")
resolve_resource_dir(config_value, cli_resource_dir, env_value) ==
    LET resolved == _coerce_path(resolve_option(cli_resource_dir, config_value,
                                                env_value, DefaultResourceDir))
    IN  IF resolved # NONE THEN resolved ELSE DefaultResourceDir

\* the values a command line, a configuration file and the environment can
\* give for each resolved setting; "" is an option or variable set to nothing
SettingValues ==
    [option |-> [cli |-> {NONE, "from-cli"}, config |-> {NONE, "from-config"},
                 env |-> {NONE, "", "from-env"}, default |-> {NONE, "default"}],
     container_path |-> [cli |-> {NONE, "", "hyrise.sif"},
                         config |-> {NONE, "/opt/img.sif"},
                         env |-> {NONE, "", DataImage}, default |-> {NONE}],
     container_runtime |-> [cli |-> {NONE, "apptainer"},
                            config |-> {NONE, "singularity"},
                            env |-> {NONE, "", "apptainer", "singularity"},
                            default |-> {NONE}],
     resource_dir |-> [cli |-> {NONE, "", "/res/cli"}, config |-> {NONE, "/res/config"},
                       env |-> {NONE, "", "/res/env"},
                       default |-> {DefaultResourceDir}]]

\* one call of resolve_option or of one of the three resolvers built on it
ResolveCall ==
    /\ pc = "idle"
    /\ \E setting \in DOMAIN SettingValues :
       \E cli_value \in SettingValues[setting].cli,
          config_value \in SettingValues[setting].config,
          env_value \in SettingValues[setting].env,
          default \in SettingValues[setting].default :
        /\ call' = [op |-> "resolve", setting |-> setting, cli_value |-> cli_value,
                    config_value |-> config_value, env_value |-> env_value,
                    default |-> default]
        /\ ret' = [NoRet EXCEPT !.ok = TRUE, !.path =
                      CASE setting = "option" ->
                             resolve_option(cli_value, config_value, env_value,
                                            default)
                        [] setting = "container_path" ->
                             resolve_container_path(config_value, cli_value,
                                                    env_value)
                        [] setting = "container_runtime" ->
                             resolve_container_runtime(config_value, cli_value,
                                                       env_value)
                        [] OTHER ->
                             resolve_resource_dir(config_value, cli_value,
                                                  env_value)]
    /\ pc' = "returned"
    /\ UNCHANGED <<env, deps, results, ws, procs, disk, detected>>

\* the generator's loop: a candidate is yielded unless it is empty or was seen
RECURSIVE YieldUnseen(_, _)
YieldUnseen(yielded, cands) ==
    IF cands = <<>> THEN yielded
    ELSE LET c == _coerce_path(Head(cands))
         IN  IF c = NONE \/ InTuple(c, yielded)
             THEN YieldUnseen(yielded, Tail(cands))
             ELSE YieldUnseen(Append(yielded, c), Tail(cands))

get_container_search_paths(config_path, extra_paths, cli_container_path, env_value) ==
    YieldUnseen(<<>>,
                <<resolve_container_path(config_path, cli_container_path, env_value),
                  CwdImage, DataImage>> \o extra_paths)

\* container.search_paths of the configuration file
ExtraPathLists ==
    {<<>>, <<"/opt/img.sif">>, <<"hyrise.sif", "/opt/img.sif">>,
     <<"/opt/img.sif", DataImage, "/opt/img.sif">>}

\* HYRISE_CONTAINER_PATH: not set, empty, or a path
EnvPaths == {NONE, "", DataImage}

SearchPathsCall ==
    /\ pc = "idle"
    /\ \E config_path \in {NONE, "/opt/img.sif"}, extra_paths \in ExtraPathLists,
          cli_container_path \in {NONE} \cup RawPaths, env_value \in EnvPaths :
        /\ call' = [op |-> "get_container_search_paths", config_path |-> config_path,
                    extra_paths |-> extra_paths,
                    cli_container_path |-> cli_container_path,
                    env_value |-> env_value]
        /\ ret' = [NoRet EXCEPT !.ok = TRUE, !.paths =
                      get_container_search_paths(config_path, extra_paths,
                                                 cli_container_path, env_value)]
    /\ pc' = "returned"
    /\ UNCHANGED <<env, deps, results, ws, procs, disk, detected>>

----------------------------------------------------------------------------
(* container_builder.py: build, pull, verify *)

\* outcome of launching a subprocess: its exit code, or Raised when the
\* executable cannot be started (subprocess raises)
Raised == -1

Outcomes == {Raised} \cup ExitCodes

\* one launched command and its exit code
Cmd(argv, code) == [argv |-> argv, code |-> code]

RECURSIVE Concat(_)
Concat(pieces) ==
    IF pieces = <<>> THEN "" ELSE Head(pieces) \o Concat(Tail(pieces))

\* definition files: os.path.dirname and the pieces of os.path.basename, cut
\* so that every occurrence of ".def" is a piece
DefFiles ==
    {[dir |-> "/cwd", name |-> <<"hyrise", ".def">>],
     [dir |-> "/opt", name |-> <<"img", ".def">>],
     [dir |-> "/cwd", name |-> <<"my", ".def", "ault", ".def">>],
     [dir |-> "/cwd", name |-> <<"Singularity">>]}

\* os.path.join(directory, name)
Join(dir, name) == dir \o "/" \o name

DefPath(d) == Join(d.dir, Concat(d.name))

\* os.path.exists for the builder: an image on disk, or a definition file
BuilderExists(p, files) == p \in files \/ p \in {DefPath(d) : d \in DefFiles}

\* paths of the binary a caller passes as singularity_path
RuntimePaths == {"/usr/bin/apptainer", "/usr/bin/singularity"}

OutputPaths == {CwdImage, "/opt/img.sif"}

\* a build or pull that exits 0 has written its output file
Written(files, output_path, ok) ==
    IF ok /\ output_path \in ImagePaths THEN files \cup {output_path} ELSE files

SkipBuildNever(exists, force) == FALSE

\* line 233: os.path.exists(output_path) and not force
SkipBuild(exists, force) == exists /\ ~force

BuildCommand(def_file_path, output_path, singularity_path, sudo, force) ==
    (IF sudo THEN <<"sudo">> ELSE <<>>) \o <<singularity_path, "build">>
    \o (IF force THEN <<"--force">> ELSE <<>>) \o <<output_path, def_file_path>>

build_container(def_file_path, output_path, singularity_path, sudo, force, files, outcome) ==
    IF SkipBuild(BuilderExists(output_path, files), force)
    THEN [ok |-> TRUE, procs |-> <<>>, files |-> files]
    ELSE IF outcome = Raised
    THEN [ok |-> FALSE, procs |-> <<>>, files |-> files]
    ELSE [ok |-> outcome = 0,
          procs |-> <<Cmd(BuildCommand(def_file_path, output_path,
                                       singularity_path, sudo, force), outcome)>>,
          files |-> Written(files, output_path, outcome = 0)]

\* an image reference as its pieces, the scheme first when it has one
ImageRefs ==
    {<<"ghcr.io/phac-nml/hyrise:latest">>,
     <<"docker://", "ghcr.io/phac-nml/hyrise:latest">>,
     <<"oras://", "ghcr.io/phac-nml/hyrise:latest">>}

\* str.startswith
StartsWith(ref, prefix) == ref # <<>> /\ Head(ref) = prefix

PullSourceAlwaysPrefixed(image_ref) == <<"docker://">> \o image_ref

\* line 305
PullSource(image_ref) ==
    IF StartsWith(image_ref, "docker://") THEN image_ref
    ELSE <<"docker://">> \o image_ref

PullCommand(source, output_path, singularity_path, force) ==
    <<singularity_path, "pull">> \o (IF force THEN <<"--force">> ELSE <<>>)
    \o <<output_path, Concat(source)>>

\* singularity_path is the binary given, or the one find_singularity_binary found
pull_container_image(image_ref, output_path, singularity_path, force, files, outcome) ==
    IF singularity_path = NONE
    THEN [ok |-> FALSE, procs |-> <<>>, files |-> files]
    ELSE IF outcome = Raised
    THEN [ok |-> FALSE, procs |-> <<>>, files |-> files]
    ELSE [ok |-> outcome = 0,
          procs |-> <<Cmd(PullCommand(PullSource(image_ref), output_path,
                                      singularity_path, force), outcome)>>,
          files |-> Written(files, output_path, outcome = 0)]

FallbackAlways(test_code) == TRUE

\* lines 352-355: the fallback runs when the self-test did not exit 0
FallbackNeeded(test_code) == test_code # 0

verify_container(container_path, singularity_path, exists, test, check) ==
    LET test_cmd == Cmd(<<singularity_path, "test", container_path>>, test)
        check_cmd == Cmd(<<singularity_path, "exec", container_path,
                           "multiqc", "--version">>, check)
    IN  IF ~exists \/ test = Raised THEN [ok |-> FALSE, procs |-> <<>>]
        ELSE IF ~FallbackNeeded(test) THEN [ok |-> TRUE, procs |-> <<test_cmd>>]
        ELSE IF check = Raised THEN [ok |-> FALSE, procs |-> <<test_cmd>>]
        ELSE [ok |-> check = 0, procs |-> <<test_cmd, check_cmd>>]

\* def_basename.replace(".def", ".sif"): every occurrence is replaced
ReplaceDef(name) ==
    [i \in 1..Len(name) |-> IF name[i] = ".def" THEN ".sif" ELSE name[i]]

\* lines 157-165
DefDirOutputPath(d, output_name) ==
    IF output_name # NONE THEN Join(d.dir, output_name)
    ELSE Join(d.dir, Concat(ReplaceDef(d.name)))

build_container_in_def_directory(d, output_name, singularity_path, sudo, force, files, outcome) ==
    IF singularity_path = NONE
    THEN [ok |-> FALSE, path |-> NONE, procs |-> <<>>, files |-> files]
    ELSE LET b == build_container(DefPath(d), DefDirOutputPath(d, output_name),
                                  singularity_path, sudo, force, files, outcome)
         IN  [ok |-> b.ok, path |-> DefDirOutputPath(d, output_name),
              procs |-> b.procs, files |-> b.files]

\* the binary a call uses: the one given, else find_singularity_binary()
BinaryFor(singularity_path, path, vok) ==
    IF singularity_path # NONE THEN singularity_path
    ELSE find_singularity_binary(path, vok)

BuildCall ==
    /\ pc = "idle"
    /\ \E d \in DefFiles, output_path \in OutputPaths, singularity_path \in RuntimePaths,
          sudo \in BOOLEAN, force \in BOOLEAN, outcome \in Outcomes :
        LET b == build_container(DefPath(d), output_path, singularity_path, sudo,
                                 force, images, outcome)
        IN  /\ call' = [op |-> "build_container", def_file_path |-> DefPath(d),
                        output_path |-> output_path,
                        singularity_path |-> singularity_path,
                        sudo |-> sudo, force |-> force,
                        existed |-> BuilderExists(output_path, images)]
            /\ ret' = [NoRet EXCEPT !.ok = b.ok]
            /\ procs' = b.procs
            /\ images' = b.files
    /\ pc' = "returned"
    /\ UNCHANGED <<onPath, deps, results, ws, disk, detected>>

PullCall ==
    /\ pc = "idle"
    /\ \E image_ref \in ImageRefs, output_path \in OutputPaths,
          singularity_path \in {NONE} \cup RuntimePaths, force \in BOOLEAN,
          vok \in VersionOutcomes, outcome \in Outcomes :
        LET b == pull_container_image(image_ref, output_path,
                                      BinaryFor(singularity_path, onPath, vok),
                                      force, images, outcome)
        IN  /\ call' = [op |-> "pull_container_image", image_ref |-> image_ref,
                        output_path |-> output_path,
                        singularity_path |-> singularity_path, force |-> force,
                        binary |-> BinaryFor(singularity_path, onPath, vok)]
            /\ ret' = [NoRet EXCEPT !.ok = b.ok]
            /\ procs' = b.procs
            /\ images' = b.files
    /\ pc' = "returned"
    /\ UNCHANGED <<onPath, deps, results, ws, disk, detected>>

VerifyCall ==
    /\ pc = "idle"
    /\ \E container_path \in OutputPaths, singularity_path \in RuntimePaths,
          test \in Outcomes, check \in Outcomes :
        LET v == verify_container(container_path, singularity_path,
                                  BuilderExists(container_path, images), test, check)
        IN  /\ call' = [op |-> "verify_container", container_path |-> container_path,
                        singularity_path |-> singularity_path]
            /\ ret' = [NoRet EXCEPT !.ok = v.ok]
            /\ procs' = v.procs
    /\ pc' = "returned"
    /\ UNCHANGED <<env, deps, results, ws, disk, detected>>

OutputNames == {NONE, "custom.sif"}

BuildInDefDirCall ==
    /\ pc = "idle"
    /\ \E d \in DefFiles, output_name \in OutputNames,
          singularity_path \in {NONE, "/usr/bin/apptainer"}, force \in BOOLEAN,
          vok \in VersionOutcomes, outcome \in Outcomes :
        LET b == build_container_in_def_directory(
                     d, output_name, BinaryFor(singularity_path, onPath, vok),
                     FALSE, force, images, outcome)
        IN  /\ call' = [op |-> "build_container_in_def_directory", def_file |-> d,
                        output_name |-> output_name,
                        singularity_path |-> singularity_path, force |-> force,
                        binary |-> BinaryFor(singularity_path, onPath, vok)]
            /\ ret' = [NoRet EXCEPT !.ok = b.ok, !.path = b.path]
            /\ procs' = b.procs
            /\ images' = b.files
    /\ pc' = "returned"
    /\ UNCHANGED <<onPath, deps, results, ws, disk, detected>>

----------------------------------------------------------------------------
(* commands/container.py *)

\* no definition file: --def-file not given, or no packaged hyrise.def
NoDef == [dir |-> NONE, name |-> <<>>]

PackagedDef == [dir |-> "/cwd", name |-> <<"hyrise", ".def">>]

\* --output as typed on the command line
OutputOptions == {"hyrise.sif", "/opt/img.sif"}

ExitCodeAlwaysZero(ok) == 0

\* return 0 if ... else 1
ExitCode(ok) == IF ok THEN 0 ELSE 1

NoContainerArgs ==
    [op |-> "run_container_command", mode |-> NONE, singularity |-> NONE,
     binary |-> NONE, output |-> "hyrise.sif", image |-> <<>>, force |-> FALSE,
     build_elsewhere |-> FALSE, def_file |-> NoDef, existed |-> FALSE,
     extract_def |-> FALSE, extract_dockerfile |-> FALSE,
     def_copied |-> FALSE, dockerfile_copied |-> FALSE]

\* the binary of a command line: --singularity, else find_singularity_binary()
BinaryChoices ==
    {"/usr/bin/apptainer"}
    \cup {find_singularity_binary(onPath, vok) : vok \in VersionOutcomes}

\* lines 156-167: --pull; without a runtime the command returns 1
ContainerPull ==
    \E binary \in BinaryChoices, output \in OutputOptions, image \in ImageRefs,
       force \in BOOLEAN :
        /\ call' = [NoContainerArgs EXCEPT !.mode = "pull", !.binary = binary,
                      !.output = output, !.image = image, !.force = force,
                      !.existed = BuilderExists(Resolve(output), images)]
        /\ IF binary = NONE
           THEN ret' = [NoRet EXCEPT !.code = 1] /\ pc' = "returned"
           ELSE ret' = [NoRet EXCEPT !.path = Resolve(output)]
                /\ pc' = "container_pull"

\* lines 184-222: --extract-def, --extract-dockerfile; the packaged file may be
\* missing and the copy may fail
ContainerExtract ==
    \E extract_def \in BOOLEAN, extract_dockerfile \in BOOLEAN,
       def_copied \in BOOLEAN, dockerfile_copied \in BOOLEAN :
        /\ extract_def \/ extract_dockerfile
        /\ def_copied => extract_def
        /\ dockerfile_copied => extract_dockerfile
        /\ call' = [NoContainerArgs EXCEPT !.mode = "extract",
                      !.extract_def = extract_def,
                      !.extract_dockerfile = extract_dockerfile,
                      !.def_copied = def_copied,
                      !.dockerfile_copied = dockerfile_copied]
        /\ ret' = [NoRet EXCEPT !.code =
                      ExitCode((extract_def => def_copied)
                               /\ (extract_dockerfile => dockerfile_copied))]
        /\ pc' = "returned"

\* --output of a build in the definition file's directory (lines 262-266)
OutputName(output) == IF output # "hyrise.sif" THEN Basename(output) ELSE NONE

\* lines 224-248: the definition file, the runtime and the output path of a build
ContainerBuild ==
    \E given \in {NoDef, [dir |-> "/cwd", name |-> <<"Singularity">>]},
       packaged \in {NoDef, PackagedDef}, binary \in BinaryChoices,
       output \in OutputOptions, force \in BOOLEAN, build_elsewhere \in BOOLEAN :
        LET d == IF given # NoDef THEN given ELSE packaged
            output_path == IF build_elsewhere THEN Resolve(output)
                           ELSE DefDirOutputPath(d, OutputName(output))
        IN  IF d = NoDef \/ binary = NONE
            THEN /\ call' = [NoContainerArgs EXCEPT !.mode = "build",
                               !.output = output, !.force = force,
                               !.build_elsewhere = build_elsewhere, !.def_file = d,
                               !.binary = IF d = NoDef THEN NONE ELSE binary]
                 /\ ret' = [NoRet EXCEPT !.code = 1]
                 /\ pc' = "returned"
            ELSE /\ call' = [NoContainerArgs EXCEPT !.mode = "build",
                               !.output = output, !.force = force,
                               !.build_elsewhere = build_elsewhere, !.def_file = d,
                               !.binary = binary,
                               !.existed = BuilderExists(output_path, images)]
                 /\ ret' = [NoRet EXCEPT !.path = output_path]
                 /\ pc' = "container_build"

run_container_command ==
    /\ pc = "idle"
    /\ \/ ContainerPull
       \/ ContainerExtract
       \/ ContainerBuild
    /\ procs' = <<>>
    /\ UNCHANGED <<env, deps, results, ws, disk, detected>>

\* lines 168-176: pull_container_image; a failed pull returns 1
ContainerPullStep ==
    /\ pc = "container_pull"
    /\ \E outcome \in Outcomes :
        LET p == pull_container_image(call.image, ret.path, call.binary,
                                      call.force, images, outcome)
        IN  /\ procs' = p.procs
            /\ images' = p.files
            /\ IF p.ok THEN pc' = "container_verify" /\ UNCHANGED ret
               ELSE pc' = "returned" /\ ret' = [ret EXCEPT !.code = 1]
    /\ UNCHANGED <<onPath, call, deps, results, ws, disk, detected>>

\* lines 251-274: build_container, directly or through
\* build_container_in_def_directory; a failed build returns 1
ContainerBuildStep ==
    /\ pc = "container_build"
    /\ \E outcome \in Outcomes :
        LET b == IF call.build_elsewhere
                 THEN build_container(DefPath(call.def_file), ret.path, call.binary,
                                      FALSE, call.force, images, outcome)
                 ELSE build_container_in_def_directory(
                          call.def_file, OutputName(call.output), call.binary,
                          FALSE, call.force, images, outcome)
        IN  /\ procs' = b.procs
            /\ images' = b.files
            /\ IF b.ok THEN pc' = "container_verify" /\ UNCHANGED ret
               ELSE pc' = "returned" /\ ret' = [ret EXCEPT !.code = 1]
    /\ UNCHANGED <<onPath, call, deps, results, ws, disk, detected>>

\* lines 177-182 and 276-290: verify_container decides the exit code
ContainerVerify ==
    /\ pc = "container_verify"
    /\ \E test \in Outcomes, check \in Outcomes :
        LET v == verify_container(ret.path, call.binary,
                                  BuilderExists(ret.path, images), test, check)
        IN  /\ procs' = procs \o v.procs
            /\ ret' = [ret EXCEPT !.ok = v.ok, !.code = ExitCode(v.ok)]
    /\ pc' = "returned"
    /\ UNCHANGED <<env, call, deps, results, ws, disk, detected>>

----------------------------------------------------------------------------
(* Direct calls of the resolver and of the two runtime detectors *)

\* container_search_paths: not given, or a list of additional paths
SearchPathArgs ==
    {NotGiven, Given(<<"/opt/img.sif">>), Given(<<DataImage, "/opt/img.sif">>)}

\* required_tools of a call: not given, the tools the package's callers name,
\* and a tool of another action (no modelled host has samtools installed)
RequiredArgs == {NotGiven, Given(<<"sierralocal">>), Given(<<"multiqc">>),
                 Given(<<"multiqc", "sierralocal">>),
                 Given(<<"sierralocal", "samtools">>)}

EnsureCall ==
    /\ pc = "idle"
    /\ \E use_container \in Modes, required \in RequiredArgs,
          container_path \in {NONE} \cup RawPaths, container_runtime \in Preferred,
          search_paths \in SearchPathArgs :
        /\ call' = [NoCall EXCEPT !.op = "ensure_dependencies",
                                  !.container = use_container,
                                  !.container_path = container_path,
                                  !.container_runtime = container_runtime,
                                  !.search_paths = search_paths,
                                  !.required_tools = required]
        /\ deps' = ensure_dependencies(use_container, required, container_path,
                                       container_runtime, search_paths, onPath, images)
    /\ pc' = "returned"
    /\ results' = NoResults
    /\ procs' = <<>>
    /\ UNCHANGED <<env, ws, disk, detected, ret>>

DetectCall ==
    /\ pc = "idle"
    /\ \E preferred \in Preferred, vok \in VersionOutcomes :
        LET rt == detect_container_runtime(preferred, onPath)
        IN  detected' = [fn |-> "detect_container_runtime", preferred |-> preferred,
                         vok |-> vok, name |-> rt.name, path |-> rt.path]
    /\ pc' = "returned"
    /\ UNCHANGED <<env, call, deps, results, ws, procs, disk, ret>>

FindBinaryCall ==
    /\ pc = "idle"
    /\ \E vok \in VersionOutcomes :
        detected' = [fn |-> "find_singularity_binary", preferred |-> NONE,
                     vok |-> vok, name |-> NONE,
                     path |-> find_singularity_binary(onPath, vok)]
    /\ pc' = "returned"
    /\ UNCHANGED <<env, call, deps, results, ws, procs, disk, ret>>

----------------------------------------------------------------------------
(* The caller takes the result; the next call starts from a clean output area *)

Return ==
    /\ pc = "returned"
    /\ pc' = "idle"
    /\ call' = NoCall
    /\ deps' = NoDeps
    /\ results' = NoResults
    /\ ws' = NoWs
    /\ procs' = <<>>
    /\ disk' = NoDisk
    /\ detected' = NoDetected
    /\ ret' = NoRet
    /\ UNCHANGED env

Init ==
    /\ onPath \in SUBSET Commands
    /\ images \in SUBSET ImagePaths
    /\ pc = "idle"
    /\ call = NoCall
    /\ deps = NoDeps
    /\ results = NoResults
    /\ ws = NoWs
    /\ procs = <<>>
    /\ disk = NoDisk
    /\ detected = NoDetected
    /\ ret = NoRet

Next ==
    \/ run_sierra_local
    \/ SierraResolve
    \/ SierraStage
    \/ SierraExec
    \/ SierraCopyOut
    \/ SierraNative
    \/ process_files
    \/ run_process_command
    \/ ProcessLoop
    \/ PfStage
    \/ PfExec
    \/ PfCopyOut
    \/ PfNative
    \/ EnsureCall
    \/ SearchPathsCall
    \/ ResolveCall
    \/ BuildCall
    \/ PullCall
    \/ VerifyCall
    \/ BuildInDefDirCall
    \/ run_container_command
    \/ ContainerPullStep
    \/ ContainerBuildStep
    \/ ContainerVerify
    \/ DetectCall
    \/ FindBinaryCall
    \/ Return

Spec == Init /\ [][Next]_vars

----------------------------------------------------------------------------
(* Properties *)

Returned(op) == pc = "returned" /\ call.op = op

Decided == Returned("ensure_dependencies")

ErrorReported ==
    results.error # NoError \/ results.printed # {} \/ results.raised

\* some candidate of the runtime detector is on PATH
RuntimeInstalled(preferred) ==
    \E r \in Runtimes \cup ({preferred} \ {NONE}) : r \in onPath

\* some candidate of the container locator exists on disk
ImageInstalled(container_path) ==
    \/ container_path # NONE /\ OsPathExists(container_path, images)
    \/ ~call.search_paths.given /\ (CwdImage \in images \/ DataImage \in images)
    \/ /\ call.search_paths.given
       /\ \E i \in 1..Len(call.search_paths.items) :
              OsPathExists(call.search_paths.items[i], images)

\* C1: a forced mode is returned as given: use_container=True yields True and
\* use_container=False yields False, whatever the host offers.
C1_Override ==
    Decided =>
        /\ call.container = "True" => deps.use_container
        /\ call.container = "False" => ~deps.use_container

C1_Witness ==
    /\ Decided
    /\ call.container = "True"
    /\ Tools \subseteq onPath
    /\ deps.missing_dependencies = <<>>
    /\ deps.use_container

DecisionComplete ==
    /\ deps.runtime_name # NONE
    /\ deps.runtime_path # NONE
    /\ deps.container_path # NONE
    /\ OsPathExists(deps.container_path, images)

\* C3: every decision with use_container True has a runtime and an existing
\* container image, in forced mode as in auto mode.
C3_Original ==
    Decided /\ deps.use_container => DecisionComplete

\* C3, auto mode only: every decision taken with use_container=None that has
\* use_container True has a runtime and an existing container image.
C3_AutoDecisionComplete ==
    Decided /\ call.container = NONE /\ deps.use_container => DecisionComplete

C3_Witness ==
    /\ Decided
    /\ call.container = NONE
    /\ deps.use_container
    /\ DecisionComplete
    /\ deps.container_path = DataImage

NoContainerExec == \A i \in 1..Len(procs) : procs[i].verb # "exec"

\* C4: with container mode forced and no runtime installed the decision is
\* use_container True without a runtime, and run_sierra_local and process_files
\* (asked to run MultiQC) report an error and launch no container exec.
C4_ForcedNoRuntime ==
    /\ pc = "returned"
    /\ \/ call.op = "run_sierra_local"
       \/ call.op = "process_files" /\ call.generate_report /\ call.run_multiqc
    /\ deps # NoDeps
    /\ call.container = "True"
    /\ ~RuntimeInstalled(call.container_runtime)
    => /\ deps.use_container
       /\ deps.runtime_path = NONE
       /\ ErrorReported
       /\ NoContainerExec

\* no file at the explicit container path, and an image at a default location
ExplicitPathMissing ==
    /\ pc = "returned"
    /\ deps # NoDeps
    /\ call.container_path # NONE
    /\ ~OsPathExists(call.container_path, images)
    /\ (CwdImage \in images \/ DataImage \in images)

\* C5: an explicit container path at which no file exists is an error, and an
\* image that exists at another location does not take its place: the resolver
\* returns no image, and run_sierra_local and process_files report the error
\* and launch nothing.
C5_NoSilentFallback ==
    ExplicitPathMissing =>
        IF call.op = "ensure_dependencies" THEN deps.container_path = NONE
        ELSE ErrorReported /\ procs = <<>>

\* C6: the staging workspace of a call is gone when the call returns, on every
\* exit path.
C6_WorkspaceCleanedUp ==
    pc \in {"returned", "idle"} => ~ws.exists /\ ws.files = {}

C6_Witness ==
    /\ Returned("run_sierra_local")
    /\ deps.use_container
    /\ results.error = Error("Error running SierraLocal", "copy")
    /\ procs # <<>>
    /\ ~ws.exists

OutputAbsent ==
    /\ procs[1].wrote = NONE
    /\ ~Has(CopyIn({}, StagedInputs(call)), Basename(OutputAbs(call)))

\* C8: in container mode a non-zero exit gives an error that carries the exit
\* code, a zero exit without the output file gives the output-not-produced
\* error, and neither reports success or an output_path.
C8_FailureClassification ==
    Returned("run_sierra_local") /\ Len(procs) = 1 /\ procs[1].verb = "exec" =>
        /\ procs[1].code # 0 =>
              /\ ~results.success
              /\ results.output_path = NONE
              /\ results.error = Error("SierraLocal execution failed",
                                       ToString(procs[1].code))
        /\ procs[1].code = 0 /\ OutputAbsent =>
              /\ ~results.success
              /\ results.output_path = NONE
              /\ results.error = Error("Output file was not created in container",
                                       NONE)

C8_Witness ==
    /\ Returned("run_sierra_local")
    /\ Len(procs) = 1
    /\ procs[1].verb = "exec"
    /\ procs[1].code # 0
    /\ procs[1].wrote # NONE
    /\ ~results.success

\* C9: a call launches at most one tool subprocess, nothing follows a container
\* invocation, and a forced mode is never run in the other mode.
C9_SingleShot ==
    pc = "returned" /\ call.op \in {"run_sierra_local", "process_files"} =>
        /\ Len(procs) <= 1
        /\ \A i \in 1..Len(procs) : procs[i].verb = "exec" => i = Len(procs)
        /\ call.container = "True" => \A i \in 1..Len(procs) : procs[i].verb = "exec"
        /\ call.container = "False" =>
              \A i \in 1..Len(procs) : procs[i].verb = "native"

\* C10: a runtime binary is returned by a detector only if its version query
\* exits 0.
C10_VersionProof ==
    pc = "returned" /\ detected.fn # NONE /\ detected.path # NONE =>
        \E r \in detected.vok : detected.path = Which(r, onPath)

\* the runtime a detector call must return: the preferred one when installed,
\* else apptainer, else singularity, else none
FirstInstalled(preferred) ==
    IF preferred # NONE /\ preferred \in onPath THEN preferred
    ELSE IF "apptainer" \in onPath THEN "apptainer"
    ELSE IF "singularity" \in onPath THEN "singularity"
    ELSE NONE

\* C11: detect_container_runtime returns the first installed candidate of
\* [preferred, apptainer, singularity] without duplicates, so an installed
\* preferred runtime wins, and (None, None) when no candidate is installed.
C11_Priority ==
    pc = "returned" /\ detected.fn = "detect_container_runtime" =>
        /\ detected.name = FirstInstalled(detected.preferred)
        /\ detected.path = Which(detected.name, onPath)
        /\ (onPath \cap Runtimes = {}) => detected.name = NONE /\ detected.path = NONE

C11_Witness ==
    /\ pc = "returned"
    /\ detected.fn = "detect_container_runtime"
    /\ detected.preferred = "singularity"
    /\ Runtimes \subseteq onPath
    /\ detected.name = "singularity"

\* the candidates of a location in the fixed order: explicit path, working
\* directory, data directory, then the extra paths as given
Candidates(explicit, extras) ==
    (IF explicit # NONE THEN <<Resolve(explicit)>> ELSE <<>>)
    \o <<CwdImage, DataImage>> \o [i \in 1..Len(extras) |-> Resolve(extras[i])]

\* the first candidate that exists on disk, or none
FirstCandidate(cands) ==
    IF \E i \in 1..Len(cands) : cands[i] \in images
    THEN cands[CHOOSE i \in 1..Len(cands) :
                   /\ cands[i] \in images
                   /\ \A j \in 1..(i - 1) : cands[j] \notin images]
    ELSE NONE

\* paths lists the candidates cands in order, each once (first occurrence)
ListsInOrder(paths, cands) ==
    /\ \A i, j \in 1..Len(paths) : paths[i] = paths[j] => i = j
    /\ {paths[i] : i \in 1..Len(paths)} = {cands[i] : i \in 1..Len(cands)}
    /\ \A i, j \in 1..Len(paths) :
          i < j => \E k \in 1..Len(cands) :
                      /\ cands[k] = paths[i]
                      /\ \A m \in 1..k : cands[m] # paths[j]

\* C12: the path list of get_container_search_paths is [explicit, cwd image,
\* data-dir image, extras in order] without duplicates, and the image located by
\* ensure_dependencies is the first of these candidates that exists, none when
\* none exists, also when extra search paths are supplied.
C12_Ordering ==
    /\ pc = "returned" /\ call.op = "get_container_search_paths" =>
          ListsInOrder(ret.paths,
                       Candidates(resolve_option(call.cli_container_path,
                                                 call.config_path,
                                                 call.env_value, NONE),
                                  call.extra_paths))
    /\ Decided =>
          deps.container_path =
              FirstCandidate(Candidates(call.container_path,
                                        call.search_paths.items))

\* every tool the call requires is on PATH
RequiredOnPath ==
    LET req == IF call.required_tools.given THEN call.required_tools.items
               ELSE <<"multiqc", "sierralocal">>
    IN  \A i \in 1..Len(req) : req[i] \in onPath

C14_BuildIdempotent ==
    [][pc = "idle" /\ pc' = "returned" /\ call'.op = "build_container"
       /\ BuilderExists(call'.output_path, images) =>
          /\ ~call'.force =>
                ret'.ok /\ procs' = <<>> /\ images' = images
          /\ procs' # <<>> =>
                call'.force /\ InTuple("--force", procs'[1].argv)]_vars

C14_Witness ==
    /\ Returned("build_container")
    /\ call.existed
    /\ ~call.force
    /\ call.output_path \in images
    /\ ret.ok
    /\ procs = <<>>

\* the two commands of a verification, as the call launched them
VerifyCommandsInOrder ==
    /\ Len(procs) <= 2
    /\ procs # <<>> =>
          procs[1].argv = <<call.singularity_path, "test", call.container_path>>
    /\ Len(procs) = 2 =>
          /\ procs[1].code # 0
          /\ procs[2].argv = <<call.singularity_path, "exec", call.container_path,
                               "multiqc", "--version">>

\* C15: verify_container returns True if the self-test exits 0 or else the
\* fallback exits 0, returns False only if both were run and both exited
\* non-zero, and runs the fallback only after the self-test has failed.
C15_Original ==
    Returned("verify_container") =>
        /\ VerifyCommandsInOrder
        /\ ret.ok <=> (procs # <<>> /\ procs[Len(procs)].code = 0)
        /\ ~ret.ok => Len(procs) = 2 /\ procs[1].code # 0 /\ procs[2].code # 0

\* C15, with the cases in which no verdict is reached: verify_container returns
\* True exactly when the last command it launched exited 0, the self-test or
\* after its failure the fallback; it returns False when both exited non-zero,
\* when no file exists at the image path (nothing is launched) and when a
\* command cannot be started.
C15_TwoTier ==
    Returned("verify_container") =>
        /\ VerifyCommandsInOrder
        /\ ret.ok <=> (procs # <<>> /\ procs[Len(procs)].code = 0)
        /\ ~BuilderExists(call.container_path, images) => procs = <<>> /\ ~ret.ok
        /\ Len(procs) = 2 /\ procs[2].code # 0 => ~ret.ok

C15_Witness ==
    /\ Returned("verify_container")
    /\ Len(procs) = 2
    /\ procs[1].code # 0
    /\ procs[2].code = 0
    /\ ret.ok

\* the source a pull must name: the reference itself when it starts with
\* docker://, else docker:// followed by the reference
ExpectedSource(image_ref) ==
    IF Head(image_ref) = "docker://" THEN Concat(image_ref)
    ELSE "docker://" \o Concat(image_ref)

\* C19: pull_container_image runs `runtime pull [--force] outputPath source`
\* with --force iff force is set and source the reference, prefixed with
\* docker:// unless it already starts with it; normalizing a normalized
\* reference changes nothing; the result is True iff the command exits 0.
C19_PullNormalization ==
    Returned("pull_container_image") =>
        /\ Len(procs) <= 1
        /\ procs # <<>> =>
              procs[1].argv =
                  <<call.binary, "pull">>
                  \o (IF call.force THEN <<"--force">> ELSE <<>>)
                  \o <<call.output_path, ExpectedSource(call.image_ref)>>
        /\ PullSource(PullSource(call.image_ref)) = PullSource(call.image_ref)
        /\ ret.ok <=> (procs # <<>> /\ procs[1].code = 0)

C19_Witness ==
    /\ Returned("pull_container_image")
    /\ Head(call.image_ref) = "docker://"
    /\ call.force
    /\ call.singularity_path = NONE
    /\ procs # <<>>
    /\ ret.ok

\* a file name with its extension swapped to .sif
SwapExtension(name) ==
    IF Len(name) > 1 /\ name[Len(name)] = ".def"
    THEN SubSeq(name, 1, Len(name) - 1) \o <<".sif">>
    ELSE name \o <<".sif">>

\* where a build in the definition file's directory must put the image
ExpectedOutputPath(d, output_name) ==
    IF output_name # NONE THEN Join(d.dir, output_name)
    ELSE Join(d.dir, Concat(SwapExtension(d.name)))

\* C20: build_container_in_def_directory builds in the definition file's
\* directory, at output_name when given and else at the definition file's name
\* with its extension swapped to .sif, returns build_container's result with
\* that path, and returns (False, None) without building when it has no runtime.
C20_DefDirectoryBuild ==
    Returned("build_container_in_def_directory") =>
        IF call.binary = NONE
        THEN ~ret.ok /\ ret.path = NONE /\ procs = <<>>
        ELSE /\ ret.path = ExpectedOutputPath(call.def_file, call.output_name)
             /\ Len(procs) <= 1
             /\ procs # <<>> =>
                   /\ procs[1].argv[Len(procs[1].argv) - 1] = ret.path
                   /\ procs[1].argv[Len(procs[1].argv)] = DefPath(call.def_file)
                   /\ ret.ok <=> procs[1].code = 0

----------------------------------------------------------------------------
(* C16: exit codes of the container command *)

\* the launched command at position i is a `build` or a `pull`
Produces(i) == procs[i].argv[2] \in {"build", "pull"}

\* the launched command at position i is one of the two verification commands
Verifies(i) == procs[i].argv[2] \in {"test", "exec"}

\* the image was produced: a build or pull exited 0, or the build was skipped
\* because the output existed and --force was not given
Produced ==
    \/ \E i \in 1..Len(procs) : Produces(i) /\ procs[i].code = 0
    \/ /\ call.mode = "build"
       /\ call.existed /\ ~call.force
       /\ \A i \in 1..Len(procs) : ~Produces(i)

\* the verification succeeded: its last command exited 0
Verified ==
    /\ procs # <<>>
    /\ Verifies(Len(procs))
    /\ procs[Len(procs)].code = 0

ExtractionsSucceeded ==
    /\ call.extract_def => call.def_copied
    /\ call.extract_dockerfile => call.dockerfile_copied

FullSuccess ==
    IF call.mode = "extract" THEN ExtractionsSucceeded
    ELSE /\ call.def_file # NoDef \/ call.mode = "pull"
         /\ call.binary # NONE
         /\ Produced
         /\ Verified

\* C16: run_container_command returns 0 exactly on full success (the build or
\* pull succeeded and the verification that follows succeeded, or every
\* requested extraction succeeded) and 1 otherwise (definition file or runtime
\* not found, build, pull, extraction or verification failed); no verification
\* command follows a build or pull that failed.
C16_ExitCodes ==
    Returned("run_container_command") =>
        /\ ret.code \in {0, 1}
        /\ ret.code = 0 <=> FullSuccess
        /\ \A i \in 1..Len(procs) :
              Produces(i) /\ procs[i].code # 0 => i = Len(procs)
        /\ ~Produced => \A i \in 1..Len(procs) : ~Verifies(i)

\* a build that exited 0 whose verification then failed
C16_Witness ==
    /\ Returned("run_container_command")
    /\ call.mode = "build"
    /\ Len(procs) >= 2
    /\ Produces(1) /\ procs[1].code = 0
    /\ ~Verified
    /\ ret.code = 1

----------------------------------------------------------------------------
(* C17: exit code of the process command on invocation failure *)

\* the container-mediated MultiQC invocation of process_files failed: the exec
\* subprocess exited non-zero, or it produced no report
ContainerMultiQCFailed ==
    \E i \in 1..Len(procs) :
        /\ procs[i].verb = "exec" /\ procs[i].tool = "multiqc"
        /\ procs[i].code # 0 \/ procs[i].wrote = NONE

----------------------------------------------------------------------------
(* C18: forced native mode with the tool missing *)

\* the required tools of the call that are not on PATH
RequiredMissing ==
    LET req == IF call.required_tools.given THEN call.required_tools.items
               ELSE <<"multiqc", "sierralocal">>
    IN  {req[i] : i \in 1..Len(req)} \ onPath

Listed(seq) == {seq[i] : i \in 1..Len(seq)}

----------------------------------------------------------------------------
(* C21: configuration precedence *)

\* the first value present in the order explicit, configuration file,
\* environment (set and non-empty), built-in default
RECURSIVE FirstPresent(_, _)
FirstPresent(values, default) ==
    IF values = <<>> THEN default
    ELSE IF Head(values) # NONE THEN Head(values)
    ELSE FirstPresent(Tail(values), default)

Selected ==
    FirstPresent(<<call.cli_value, call.config_value,
                   IF call.env_value = "" THEN NONE ELSE call.env_value>>,
                 call.default)

\* C21: resolve_option returns the explicit value when it is supplied, else
\* the configuration-file value when present, else the environment variable
\* when set and non-empty, else the default; the container path, the runtime
\* name and the resource directory are each the value selected in that order
\* (paths made absolute, an empty selection counting as no path).
C21_Precedence ==
    Returned("resolve") =>
        CASE call.setting = "option" -> ret.path = Selected
          [] call.setting = "container_runtime" -> ret.path = Selected
          [] call.setting = "container_path" ->
                ret.path = IF Selected = "" THEN NONE ELSE Resolve(Selected)
          [] OTHER ->
                ret.path = IF Selected = "" THEN DefaultResourceDir
                           ELSE Resolve(Selected)

\* each resolver has decided between a configuration value and an environment
\* value with no explicit value given
C21_Witness ==
    /\ Returned("resolve")
    /\ call.setting = "resource_dir"
    /\ call.cli_value = NONE
    /\ call.config_value = "/res/config"
    /\ call.env_value = "/res/env"
    /\ ret.path = "/res/config"

----------------------------------------------------------------------------
(* C22: sequential multi-input processing *)

\* C22: run_process_command takes its inputs one at a time in the order
\* given, each one getting its own resolution and invocation by process_files,
\* a failure on one input not stopping the later ones; it returns 1 if and
\* only if some input failed, else 0.
C22_SequentialInputs ==
    Returned("run_process_command") /\ call.inputs # <<>>
    /\ (call.container_path = NONE \/ OsPathExists(call.container_path, images))
    => /\ ret.paths = call.inputs
       /\ ret.processed = call.inputs
       /\ ret.code \in {0, 1}
       /\ ret.code = 1 <=> results.raised

----------------------------------------------------------------------------
(* C23: input validation comes first *)

\* the inputs of the call that do not exist
MissingInputs ==
    {f \in {call.fasta[i] : i \in 1..Len(call.fasta)} \cup {call.xml, call.json_file} :
        f # NONE /\ ~InputExists(f)}

\* the error message for a missing input of each kind
NotFoundMessage(f) ==
    IF \E i \in 1..Len(call.fasta) : call.fasta[i] = f THEN "FASTA file not found"
    ELSE IF f = call.xml THEN "XML file not found"
    ELSE "JSON file not found"

\* C23: when a FASTA input, the XML file or the APOBEC JSON file of
\* run_sierra_local does not exist, it returns success False with a 'not
\* found' error naming a missing file, and it has resolved no execution mode,
\* downloaded nothing, created no directory and launched no subprocess.
C23_ValidationFirst ==
    Returned("run_sierra_local") /\ MissingInputs # {} =>
        /\ ~results.success
        /\ results.error.detail \in MissingInputs
        /\ results.error.msg = NotFoundMessage(results.error.detail)
        /\ deps = NoDeps
        /\ disk = NoDisk
        /\ ws = NoWs
        /\ procs = <<>>

\* the XML file is missing while the FASTA inputs exist
C23_Witness ==
    /\ Returned("run_sierra_local")
    /\ call.xml = "/a/no.xml"
    /\ \A i \in 1..Len(call.fasta) : InputExists(call.fasta[i])
    /\ results.error.msg = "XML file not found"

----------------------------------------------------------------------------
(* C24: the missing dependencies *)

\* C24: missing_dependencies of a decision is exactly the set of the required
\* tools of the call that are not on PATH, for every required-tool set.
C24_MissingExact ==
    Decided => Listed(deps.missing_dependencies) = RequiredMissing

----------------------------------------------------------------------------
(* C25: staging I/O failure *)

\* C25: when copying an input into the workspace fails, run_sierra_local
\* returns at once with no subprocess launched; when copying the produced
\* output to its destination fails, it does not report success; either way
\* the result carries the error.
C25_StagingFailure ==
    [][/\ pc = "sierra_stage" /\ pc' = "returned"
          => /\ procs' = <<>>
             /\ ~results'.success
             /\ results'.error # NoError
       /\ pc = "sierra_copyout" /\ ~Has(disk'.files, OutputAbs(call))
          => /\ pc' = "returned"
             /\ ~results'.success
             /\ results'.error # NoError]_vars

\* the tool ran and wrote its output, and the copy to the destination failed
C25_Witness ==
    /\ Returned("run_sierra_local")
    /\ Len(procs) = 1 /\ procs[1].code = 0 /\ procs[1].wrote # NONE
    /\ ~Has(disk.files, OutputAbs(call))
    /\ results.error = Error("Error running SierraLocal", "copy")

----------------------------------------------------------------------------
(* C26: the executable of a container exec *)

\* the file an argv[0] runs: a bare name is looked up on PATH
Executable(exe) == IF exe \in Commands THEN Which(exe, onPath) ELSE exe

\* C26: every container exec launched by run_sierra_local or process_files
\* runs the runtime path the detector resolved for the decision.
C26_ResolvedRuntime ==
    call.op \in {"run_sierra_local", "process_files"} =>
        \A i \in 1..Len(procs) :
            procs[i].verb = "exec" => Executable(procs[i].exe) = deps.runtime_path

----------------------------------------------------------------------------
(* C27: the two runtime detectors *)

\* C27: on a host whose installed runtimes all answer the version query, the
\* binary find_singularity_binary returns is the one detect_container_runtime
\* returns with no preferred runtime.
C27_SameRuntime ==
    /\ pc = "returned"
    /\ detected.fn = "find_singularity_binary"
    /\ detected.vok = onPath \cap Runtimes
    => detected.path = detect_container_runtime(NONE, onPath).path

----------------------------------------------------------------------------
(* C28: the staged inputs *)

\* every input of the call is in the workspace under its basename, with its
\* own bytes
InputsStaged ==
    \A i \in 1..Len(StagedInputs(call)) :
        <<Basename(StagedInputs(call)[i]), Content(StagedInputs(call)[i])>>
            \in ws.files

\* no staged file has the name the tool is told to write
OutputNameFree == ~Has(ws.files, Basename(OutputAbs(call)))

\* C28: when the tool starts in the staged workspace, every input of
\* run_sierra_local is there with its own contents, and the output file name
\* is the name of no staged input.
C28_StagedInputs ==
    pc = "sierra_exec" => InputsStaged /\ OutputNameFree

----------------------------------------------------------------------------
(* C29: MultiQC in auto mode *)

\* C29: in auto mode with multiqc on PATH, process_files takes the native
\* branch for MultiQC and never the container branch, whatever else is
\* missing and whatever runtime and image the host has.
C29_NativeMultiQC ==
    call.op = "process_files" /\ call.container = NONE /\ "multiqc" \in onPath
    => /\ pc \notin {"pf_stage", "pf_exec", "pf_copyout"}
       /\ \A i \in 1..Len(procs) : procs[i].verb = "native"

----------------------------------------------------------------------------
(* C30: failures before the tool is invoked *)

\* the errors of the checks between resolution and invocation
GateMessages ==
    {"Container not found at", "Container required but not found",
     "SierraLocal is not available", "No supported container runtime found"}

\* C30: when run_sierra_local fails on one of the checks that precede the
\* invocation, no directory has been created and no file has been written.
C30_NoEffectOnEarlyFailure ==
    Returned("run_sierra_local") /\ results.error.msg \in GateMessages
    => /\ disk = NoDisk
       /\ procs = <<>>

====
